---- MODULE Spec2Model ----
(***************************************************************************)
(* The order aggregate (domain/orders/model/mod.rs), the order store it is *)
(* persisted through, and the add-or-update-product command                *)
(* (domain/orders/commands/add_or_update_product.rs).                      *)
(***************************************************************************)
EXTENDS Integers, Sequences, FiniteSets, TLC

\* ---------------------------------------------------------------- bounds
MaxOrderIds == 2
MaxProductIds == 2
MaxLineItemIds == 2
MaxPrice == 2
MaxQuantity == 2
MaxVersion == 2
\* The hexadecimal digits of an identifier's text (32 in a UUID).
MaxDigits == 3
\* The titles a product can be given, and the callers that share the
\* product store.
MaxTitles == 2
MaxCallers == 2

OrderIds == 1..MaxOrderIds
ProductIds == 1..MaxProductIds
LineItemIds == 1..MaxLineItemIds
Prices == 1..MaxPrice
\* `quantity: u32`: zero is a value a caller can pass.
Quantities == 0..MaxQuantity

\* default_customer(): the one customer the orders are created for.
default_customer == [id |-> "customer"]

\* ------------------------------------------------------- Result<T, E>
Ok(v) == [ok |-> TRUE, value |-> v]
Err(k, m) == [ok |-> FALSE, kind |-> k, msg |-> m]

\* type OrderError = String, raised by the aggregate.
OrderError(m) == Err("OrderError", m)
\* Variant of bad_input: error::msg(msg), an error of the other kind.
msg_error(m) == Err("Other", m)

\* error::msg(msg), raised by the set-product-title command.
error_msg(m) == Err("Other", m)

\* error::bad_input(msg), raised by the command.
bad_input(m) == Err("BadInput", m)
\* The store's write conflict.
concurrency_conflict == Err("ConcurrencyConflict", "optimistic concurrency fail")

\* Option<T>
None == [tag |-> "None"]
Some(v) == [tag |-> "Some", value |-> v]

\* ------------------------------------------------------------ versions
\* Version::default()
DefaultVersion == 0
\* The store's advance of a version on a successful write.
NextVersion(v) == v + 1

\* --------------------------------------------------------------- data
OrderData(id, version, customer_id) ==
    [id |-> id, version |-> version, customer_id |-> customer_id]

LineItemData(id, version, product_id, price, quantity) ==
    [id |-> id, version |-> version, product_id |-> product_id,
     price |-> price, quantity |-> quantity]

\* ProductData { id, price, .. }
ProductData(id, price) == [id |-> id, price |-> price]

\* struct Order { order, line_items }
MkOrder(order, line_items) ==
    [tag |-> "Order", order |-> order, line_items |-> line_items]

\* struct OrderLineItem { order, line_item }
MkOrderLineItem(order, line_item) ==
    [tag |-> "OrderLineItem", order |-> order, line_item |-> line_item]

\* ------------------------------------------------------ identifier text
\* Id<T>(Uuid, PhantomData<T>): the value, digit by digit. Two digit values
\* stand for the sixteen: one written with a numeral, one with a letter.
HexValues == {0, 10}
Ids == [1..MaxDigits -> HexValues]

\* The characters a text is made of: a numeral, a letter in either case, the
\* hyphen, and a letter that is no hexadecimal digit.
Chars == {"0", "a", "A", "-", "g"}

\* The hyphenated form groups the digits (8-4-4-4-12 in a UUID): here a
\* hyphen follows the first digit.
HyphenAfter == {1}

\* The two lengths Uuid::parse_str accepts: hyphenated and simple.
HyphenatedLen == MaxDigits + Cardinality(HyphenAfter)
SimpleLen == MaxDigits

\* Every text up to one character longer than the hyphenated form.
Texts == UNION {[1..n -> Chars] : n \in 0..(HyphenatedLen + 1)}

\* LowerHex of one digit.
LowerHex(v) == IF v = 10 THEN "a" ELSE "0"

\* The value of a hexadecimal digit, in either case; none for other characters.
HexValue(c) ==
    IF c = "0" THEN Some(0)
    ELSE IF c \in {"a", "A"} THEN Some(10)
    ELSE None

\* Display for Id<T>: the Uuid's Display, lower-case and hyphenated.
RECURSIVE IdDisplayFrom(_, _)
IdDisplayFrom(id, i) ==
    IF i > MaxDigits THEN <<>>
    ELSE (IF i \in HyphenAfter
          THEN <<LowerHex(id[i]), "-">>
          ELSE <<LowerHex(id[i])>>) \o IdDisplayFrom(id, i + 1)

IdDisplay(id) == IdDisplayFrom(id, 1)

\* type IdError = String: the Uuid parser's message.
IdError(m) == Err("IdError", m)

\* The digits of a text read left to right: position i of the text, digit
\* d of the identifier still to be read, hyphens expected or not.
RECURSIVE ParseDigits(_, _, _, _, _)
ParseDigits(text, i, d, hyphenated, acc) ==
    IF d > MaxDigits
    THEN IF i > Len(text) THEN Ok(acc) ELSE IdError("invalid length")
    ELSE IF i > Len(text)
    THEN IdError("invalid length")
    ELSE IF HexValue(text[i]) = None
    THEN IdError("invalid character")
    ELSE IF hyphenated /\ d \in HyphenAfter
    THEN IF i + 1 <= Len(text) /\ text[i + 1] = "-"
         THEN ParseDigits(text, i + 2, d + 1, hyphenated,
                          Append(acc, HexValue(text[i]).value))
         ELSE IdError("invalid group length")
    ELSE ParseDigits(text, i + 1, d + 1, hyphenated,
                     Append(acc, HexValue(text[i]).value))

\* Variant of IdTryFrom that stops reading once it has all its digits and
\* ignores what follows them.
IdTryFromPrefix(text) ==
    IF Len(text) >= SimpleLen
       /\ \A i \in 1..SimpleLen : HexValue(text[i]) # None
    THEN Ok([i \in 1..SimpleLen |-> HexValue(text[i]).value])
    ELSE IdError("invalid length")

\* TryFrom<&str> for Id<T>: Uuid::parse_str(id).map_err(|e| format!("{}", e)).
\* The text is taken by its length as hyphenated or simple.
IdTryFrom(text) ==
    IF Len(text) = HyphenatedLen
    THEN ParseDigits(text, 1, 1, TRUE, <<>>)
    ELSE IF Len(text) = SimpleLen
    THEN ParseDigits(text, 1, 1, FALSE, <<>>)
    ELSE IdError("invalid length")

\* -------------------------------------------------------- the aggregate
\* Variant of QuantityTryFrom with the check left out.
QuantityTryFromLax(quantity) == Ok(quantity)

\* Variant of QuantityTryFrom with the comparison off by one (<= for <).
QuantityTryFromStrict(quantity) ==
    IF quantity <= 1
    THEN OrderError("quantity must be greater than 0")
    ELSE Ok(quantity)

\* TryFrom<u32> for Quantity
QuantityTryFrom(quantity) ==
    IF quantity < 1
    THEN OrderError("quantity must be greater than 0")
    ELSE Ok(quantity)

\* Order::contains_product
contains_product(o, product_id) ==
    \E i \in DOMAIN o.line_items : o.line_items[i].product_id = product_id

\* Order::new: version is the default, no line items.
Order_new(id, customer) ==
    Ok(MkOrder(OrderData(id, DefaultVersion, customer.id), <<>>))

\* Variant of add_product without the contains_product check.
add_product_unchecked(o, id, product, quantity) ==
    LET q == QuantityTryFrom(quantity) IN
    IF ~q.ok
    THEN [result |-> q, order |-> o]
    ELSE [result |-> Ok("unit"),
          order |-> MkOrder(o.order,
                       Append(o.line_items,
                              LineItemData(id, DefaultVersion, product.id,
                                           product.price, q.value)))]

\* Variant of add_product that gives the line item a fixed price instead of
\* the product's.
add_product_uncaptured(o, id, product, quantity) ==
    LET q == QuantityTryFrom(quantity) IN
    IF contains_product(o, product.id)
    THEN [result |-> OrderError("product is already in order"), order |-> o]
    ELSE IF ~q.ok
    THEN [result |-> q, order |-> o]
    ELSE [result |-> Ok("unit"),
          order |-> MkOrder(o.order,
                       Append(o.line_items,
                              LineItemData(id, DefaultVersion, product.id,
                                           1, q.value)))]

\* Variant of add_product that, finding the product in the order, writes the
\* quantity into its line item before failing.
add_product_clobber(o, id, product, quantity) ==
    LET q == QuantityTryFrom(quantity) IN
    IF contains_product(o, product.id)
    THEN [result |-> OrderError("product is already in order"),
          order |-> MkOrder(o.order,
                       [i \in DOMAIN o.line_items |->
                           IF o.line_items[i].product_id = product.id
                           THEN [o.line_items[i] EXCEPT !.quantity = quantity]
                           ELSE o.line_items[i]])]
    ELSE IF ~q.ok
    THEN [result |-> q, order |-> o]
    ELSE [result |-> Ok("unit"),
          order |-> MkOrder(o.order,
                       Append(o.line_items,
                              LineItemData(id, DefaultVersion, product.id,
                                           product.price, q.value)))]

\* Variant of add_product that pushes the line item before the quantity is
\* validated.
add_product_push_first(o, id, product, quantity) ==
    LET q == QuantityTryFrom(quantity)
        pushed == MkOrder(o.order,
                     Append(o.line_items,
                            LineItemData(id, DefaultVersion, product.id,
                                         product.price, quantity)))
    IN
    IF contains_product(o, product.id)
    THEN [result |-> OrderError("product is already in order"), order |-> o]
    ELSE IF ~q.ok
    THEN [result |-> q, order |-> pushed]
    ELSE [result |-> Ok("unit"), order |-> pushed]

\* Variant of add_product that assigns the new line item to the list
\* instead of pushing it.
add_product_replace(o, id, product, quantity) ==
    LET q == QuantityTryFrom(quantity) IN
    IF contains_product(o, product.id)
    THEN [result |-> OrderError("product is already in order"), order |-> o]
    ELSE IF ~q.ok
    THEN [result |-> q, order |-> o]
    ELSE [result |-> Ok("unit"),
          order |-> MkOrder(o.order,
                       <<LineItemData(id, DefaultVersion, product.id,
                                      product.price, q.value)>>)]

\* Order::add_product: the result and the order afterwards (`&mut self`).
\* The duplicate check comes first, then the identifier (the repository's
\* identity providers, Id and NextId, always yield one), then the quantity;
\* the push happens only when all of them went through.
add_product(o, id, product, quantity) ==
    LET q == QuantityTryFrom(quantity) IN
    IF contains_product(o, product.id)
    THEN [result |-> OrderError("product is already in order"), order |-> o]
    ELSE IF ~q.ok
    THEN [result |-> q, order |-> o]
    ELSE [result |-> Ok("unit"),
          order |-> MkOrder(o.order,
                       Append(o.line_items,
                              LineItemData(id, DefaultVersion, product.id,
                                           product.price, q.value)))]

\* Iterator::find: the first line item for the product.
find_line_item(line_items, product_id) ==
    LET i == CHOOSE i \in DOMAIN line_items :
                 /\ line_items[i].product_id = product_id
                 /\ \A j \in DOMAIN line_items :
                        line_items[j].product_id = product_id => i <= j
    IN line_items[i]

\* Variant of into_line_item_for_product that never finds the product.
into_line_item_never(o, product_id) == [tag |-> "NotInOrder", order |-> o]

\* Variant of into_line_item_for_product that, the product being in the
\* order, hands out the order's first line item whatever its product.
into_line_item_first(o, product_id) ==
    IF ~contains_product(o, product_id)
    THEN [tag |-> "NotInOrder", order |-> o]
    ELSE [tag |-> "InOrder",
          line_item |-> MkOrderLineItem(o.order, o.line_items[1])]

\* Order::into_line_item_for_product: IntoLineItem::{InOrder, NotInOrder}.
into_line_item_for_product(o, product_id) ==
    IF ~contains_product(o, product_id)
    THEN [tag |-> "NotInOrder", order |-> o]
    ELSE [tag |-> "InOrder",
          line_item |-> MkOrderLineItem(o.order,
                           find_line_item(o.line_items, product_id))]

\* Variant of set_quantity that stamps the line item with a new version as
\* it changes it.
set_quantity_advances(li, quantity) ==
    LET q == QuantityTryFrom(quantity) IN
    IF ~q.ok
    THEN [result |-> q, line_item |-> li]
    ELSE [result |-> Ok("unit"),
          line_item |-> MkOrderLineItem(li.order,
                           [li.line_item EXCEPT !.quantity = q.value,
                                                !.version = NextVersion(@)])]

\* OrderLineItem::set_quantity: the result and the line item afterwards.
set_quantity(li, quantity) ==
    LET q == QuantityTryFrom(quantity) IN
    IF ~q.ok
    THEN [result |-> q, line_item |-> li]
    ELSE [result |-> Ok("unit"),
          line_item |-> MkOrderLineItem(li.order,
                           [li.line_item EXCEPT !.quantity = q.value])]

\* ------------------------------------------------------------ the store
\* OrderStore, an in-memory map from order id to the order and its line
\* items; in_memory_store() is the empty map.
in_memory_store == [id \in OrderIds |-> None]

\* OrderStore::get_order: the order and its line items, or absence.
get_order(s, id) ==
    IF s[id] = None THEN Ok(None) ELSE Ok(Some(s[id]))

\* OrderStore::get_line_item: the order paired with one of its line items.
get_line_item(s, id, line_item_id) ==
    IF s[id] = None
    THEN Ok(None)
    ELSE IF \E i \in DOMAIN s[id].line_items :
                s[id].line_items[i].id = line_item_id
    THEN LET i == CHOOSE i \in DOMAIN s[id].line_items :
                      s[id].line_items[i].id = line_item_id
         IN Ok(Some(MkOrderLineItem(s[id].order, s[id].line_items[i])))
    ELSE Ok(None)

\* OrderStore::set_order: the whole order with its line items, in one step;
\* rejected when the stored version is not the one the writer read,
\* and the order's version advances with the write.
set_order(s, o) ==
    LET id == o.order.id IN
    IF s[id] # None /\ s[id].order.version # o.order.version
    THEN [result |-> concurrency_conflict, store |-> s]
    ELSE [result |-> Ok("unit"),
          store |-> [s EXCEPT ![id] =
                        MkOrder([o.order EXCEPT !.version = NextVersion(@)],
                                o.line_items)]]

\* OrderStore::set_line_item: one line item of a stored order, leaving the
\* order and its other line items as they are; rejected when the
\* stored line item's version is not the one the writer read.
set_line_item(s, li) ==
    LET id == li.order.id
        item == li.line_item
    IN
    IF s[id] = None
    THEN [result |-> bad_input("not found"), store |-> s]
    ELSE IF \E i \in DOMAIN s[id].line_items :
                /\ s[id].line_items[i].id = item.id
                /\ s[id].line_items[i].version # item.version
    THEN [result |-> concurrency_conflict, store |-> s]
    ELSE IF \E i \in DOMAIN s[id].line_items : s[id].line_items[i].id = item.id
    THEN [result |-> Ok("unit"),
          store |-> [s EXCEPT ![id].line_items =
                        [i \in DOMAIN @ |->
                            IF @[i].id = item.id
                            THEN [item EXCEPT !.version = NextVersion(@)]
                            ELSE @[i]]]]
    ELSE [result |-> Ok("unit"),
          store |-> [s EXCEPT ![id].line_items =
                        Append(@, [item EXCEPT !.version = NextVersion(@)])]]

\* ----------------------------------------------------- the product store
Titles == 1..MaxTitles
Callers == 1..MaxCallers

\* products::ProductData { id, title }, the record the product store keeps.
StoredProduct(id, title) == [id |-> id, title |-> title]

\* Product::new(id, title)
Product_new(id, title) == Ok(StoredProduct(id, title))

\* Product::set_title: the product afterwards; it cannot fail.
set_title(product, title) == [product EXCEPT !.title = title]

\* A map entry while BTreeMap::insert is at work on it: read then, it is
\* neither the old value nor the new.
Writing == [tag |-> "Writing"]

\* InMemoryStore = RwLock<BTreeMap<i32, ProductData>>; in_memory_store() is
\* the empty map behind a free lock. `applied` counts, per product, the
\* inserts that went through: a record of the run, not a field of the store.
product_in_memory_store ==
    [products |-> [id \in ProductIds |-> None],
     readers |-> {},
     writer |-> None,
     applied |-> [id \in ProductIds |-> 0]]

\* Variant of can_read: the read lock is granted whoever holds the lock.
can_read_always(ps) == TRUE

\* RwLock::read: granted while no writer holds the lock.
can_read(ps) == ps.writer = None

\* RwLock::write: granted while nobody holds the lock.
can_write(ps) == ps.writer = None /\ ps.readers = {}

\* products.get(&id) under the read lock, cloned.
product_get(ps, id) == ps.products[id]

\* The caller of the product store when it makes no call.
Idle == [pc |-> "idle"]

\* ------------------------------------------------------- transactions
\* ActiveTransactionProvider::active(): the transaction of one invocation,
\* told apart by the caller that began it.
active(c) == [owner |-> c]

\* Variant of exit that releases the transaction only when the closure
\* returns Ok: an early return through `?` or `return Err(..)` keeps it.
exit_holding(frame, result, writes) ==
    [pc |-> "done", op |-> frame.op, result |-> result, writes |-> writes,
     began |-> frame.transaction,
     transaction |-> IF result.ok THEN None ELSE frame.transaction]

\* The end of a command's closure, by its last expression, a `?` or a
\* `return`: the locals are dropped, `transaction` among them, and the
\* caller has the result. `began` and `writes` keep what the invocation
\* held and did.
exit(frame, result, writes) ==
    [pc |-> "done", op |-> frame.op, result |-> result, writes |-> writes,
     began |-> frame.transaction, transaction |-> None]

\* A store write and the transaction it was given (`transaction.get()`).
Write(op, transaction) == [op |-> op, transaction |-> transaction]

\* ---------------------------------------------------------- the command
\* struct AddOrUpdateProduct { id, product_id, quantity }
AddOrUpdateProduct(id, product_id, quantity) ==
    [id |-> id, product_id |-> product_id, quantity |-> quantity]

\* What one invocation of the command did: its result, the store afterwards,
\* how often it asked the identity provider, and its store writes in order.
Outcome(result, s, id_calls, writes) ==
    [result |-> result, store |-> s, id_calls |-> id_calls, writes |-> writes]

\* Variant of in_order that persists the line item before set_quantity has
\* validated the quantity.
in_order_write_first(s, command, line_item) ==
    LET id == line_item.line_item.id
        raw == MkOrderLineItem(line_item.order,
                  [line_item.line_item EXCEPT !.quantity = command.quantity])
        w == set_line_item(s, raw)
        sq == set_quantity(line_item, command.quantity)
    IN IF ~w.result.ok
       THEN Outcome(w.result, w.store, 0, <<"set_line_item">>)
       ELSE IF ~sq.result.ok
       THEN Outcome(sq.result, w.store, 0, <<"set_line_item">>)
       ELSE Outcome(Ok(id), w.store, 0, <<"set_line_item">>)

\* Variant of in_order that returns the identifier without persisting the
\* line item.
in_order_unpersisted(s, command, line_item) ==
    LET id == line_item.line_item.id
        sq == set_quantity(line_item, command.quantity)
    IN IF ~sq.result.ok
       THEN Outcome(sq.result, s, 0, <<>>)
       ELSE Outcome(Ok(id), s, 0, <<>>)

\* Variant of in_order that persists through set_order, as the other arm
\* does, with the one line item it holds.
in_order_rewrites(s, command, line_item) ==
    LET id == line_item.line_item.id
        sq == set_quantity(line_item, command.quantity)
        w == set_order(s, MkOrder(sq.line_item.order, <<sq.line_item.line_item>>))
    IN IF ~sq.result.ok
       THEN Outcome(sq.result, s, 0, <<>>)
       ELSE IF ~w.result.ok
       THEN Outcome(w.result, w.store, 0, <<"set_order">>)
       ELSE Outcome(Ok(id), w.store, 0, <<"set_order">>)

\* IntoLineItem::InOrder(mut line_item) => { .. }: set the quantity, persist
\* the one line item, return its id.
in_order(s, command, line_item) ==
    LET id == line_item.line_item.id
        sq == set_quantity(line_item, command.quantity)
        w == set_line_item(s, sq.line_item)
    IN IF ~sq.result.ok
       THEN Outcome(sq.result, s, 0, <<>>)
       ELSE IF ~w.result.ok
       THEN Outcome(w.result, w.store, 0, <<"set_line_item">>)
       ELSE Outcome(Ok(id), w.store, 0, <<"set_line_item">>)

\* Variant of not_in_order that looks the product up before it asks for an
\* id.
not_in_order_lookup_first(s, command, order, next_id, found) ==
    IF found = None
    THEN Outcome(bad_input("product not found"), s, 0, <<>>)
    ELSE LET ap == add_product(order, next_id, found.value, command.quantity)
             w == set_order(s, ap.order)
         IN IF ~ap.result.ok
            THEN Outcome(ap.result, s, 1, <<>>)
            ELSE IF ~w.result.ok
            THEN Outcome(w.result, w.store, 1, <<"set_order">>)
            ELSE Outcome(Ok(next_id), w.store, 1, <<"set_order">>)

\* IntoLineItem::NotInOrder(mut order) => { .. }: ask for an id, look the
\* product up, add it to the order, persist the whole order, return the id.
not_in_order(s, command, order, next_id, found) ==
    IF found = None
    THEN Outcome(bad_input("product not found"), s, 1, <<>>)
    ELSE LET ap == add_product(order, next_id, found.value, command.quantity)
             w == set_order(s, ap.order)
         IN IF ~ap.result.ok
            THEN Outcome(ap.result, s, 1, <<>>)
            ELSE IF ~w.result.ok
            THEN Outcome(w.result, w.store, 1, <<"set_order">>)
            ELSE Outcome(Ok(next_id), w.store, 1, <<"set_order">>)

\* Variant of order_not_found that stores a new order under the id, the way
\* set_product_command creates a missing product.
order_not_found_creates(s, command) ==
    LET w == set_order(s, Order_new(command.id, default_customer).value) IN
    Outcome(bad_input("not found"), w.store, 0, <<"set_order">>)

\* The else of `if let Some(order) = store.get_order(command.id)?`.
order_not_found(s, command) ==
    Outcome(bad_input("not found"), s, 0, <<>>)

\* The closure add_or_update_product_command returns, run against store s:
\* next_id is what id_provider.id() yields when asked, found is what the
\* product query answers for command.product_id.
add_or_update_product_command(s, command, next_id, found) ==
    LET got == get_order(s, command.id).value IN
    IF got = None
    THEN order_not_found(s, command)
    ELSE LET into == into_line_item_for_product(got.value, command.product_id)
         IN IF into.tag = "InOrder"
            THEN in_order(s, command, into.line_item)
            ELSE not_in_order(s, command, into.order, next_id, found)

\* ------------------------------------------------------------- the state
VARIABLES
    mem,    \* the aggregate a caller holds: an Order, an OrderLineItem, or none
    store,  \* the order store's map
    last,   \* the last call: its name, its arguments and what it returned
    prev,   \* mem and store as they were before the last call
    parsed, \* the last identifier conversion: what went in, what came out
    product_store,  \* the product store: its map and its lock
    callers,    \* what each caller of the product store is doing
    tasks   \* what each caller of the add-or-update command is doing

vars == <<mem, store, last, prev, parsed, product_store, callers, tasks>>

\* What the calls on the aggregate, the order store and the command leave
\* alone.
others == <<parsed, product_store, callers, tasks>>

Snapshot == [mem |-> mem, store |-> store]

\* The line items of whatever the caller holds.
MemLineItems(m) ==
    IF m.tag = "Order" THEN {m.line_items[i] : i \in DOMAIN m.line_items}
    ELSE IF m.tag = "OrderLineItem" THEN {m.line_item}
    ELSE {}

\* The line items of the stored order id.
StoredLineItems(s, id) ==
    IF s[id] = None THEN {}
    ELSE {s[id].line_items[i] : i \in DOMAIN s[id].line_items}

\* The identifiers no line item in memory or in the store carries.
UnusedLineItemIds(m, s) ==
    LineItemIds \ ({li.id : li \in MemLineItems(m)}
                   \cup UNION {{li.id : li \in StoredLineItems(s, id)} :
                               id \in OrderIds})

\* Id::new() / NextId::next(): a fresh random identifier. Identifiers are
\* only ever compared for equality, so which unused one is drawn makes no
\* difference: the least stands for them all.
FreshLineItemIds(m, s) ==
    {id \in UnusedLineItemIds(m, s) :
        \A other \in UnusedLineItemIds(m, s) : id <= other}

\* An identifier beyond the modelled ones.
BeyondLineItemIds == MaxLineItemIds + 1

\* What the identity provider yields next. Once every modelled identifier
\* is in use it yields one beyond them, and the calls that would put it
\* into a line item are left out.
NextLineItemIds(m, s) ==
    IF UnusedLineItemIds(m, s) = {}
    THEN {BeyondLineItemIds}
    ELSE FreshLineItemIds(m, s)

\* Line item versions stay within the modelled range: a line item is
\* rewritten at most MaxVersion times. (An order is written once when it is
\* created and once per product added to it, so its version is bounded by
\* the products there are.)
VersionsWithin(s) ==
    \A id \in OrderIds :
        \A li \in StoredLineItems(s, id) : li.version <= MaxVersion

\* The products a caller can pass or the product query can answer with.
Products == {ProductData(id, price) : id \in ProductIds, price \in Prices}

Init ==
    /\ mem = None
    /\ store = in_memory_store
    /\ last = [op |-> "none"]
    /\ prev = [mem |-> None, store |-> in_memory_store]
    /\ parsed = [op |-> "none"]
    /\ product_store = product_in_memory_store
    /\ callers = [c \in Callers |-> Idle]
    /\ tasks = [c \in Callers |-> Idle]

\* Order::new(OrderId::new(), &default_customer()): a fresh order id.
OrderNew(id) ==
    /\ mem = None
    /\ store[id] = None
    /\ mem' = Order_new(id, default_customer).value
    /\ last' = [op |-> "new", id |-> id, result |-> Ok("unit")]
    /\ prev' = Snapshot
    /\ UNCHANGED <<store, others>>

\* order.add_product(LineItemId::new(), &product, quantity)
AddProduct(id, product, quantity) ==
    /\ mem.tag = "Order"
    /\ \E r \in {add_product(mem, id, product, quantity)} :
       /\ r.result.ok => id \in LineItemIds
       /\ mem' = r.order
       \* What went into the new line item is recorded when there is one.
       /\ last' = [op |-> "add_product", product_id |-> product.id,
                   quantity |-> quantity, result |-> r.result,
                   price |-> IF r.result.ok THEN Some(product.price) ELSE None,
                   id |-> IF r.result.ok THEN Some(id) ELSE None]
    /\ prev' = Snapshot
    /\ UNCHANGED <<store, others>>

\* order.into_line_item_for_product(product_id); the order is consumed.
IntoLineItemForProduct(product_id) ==
    /\ mem.tag = "Order"
    /\ \E r \in {into_line_item_for_product(mem, product_id)} :
       /\ mem' = IF r.tag = "InOrder" THEN r.line_item ELSE r.order
       /\ last' = [op |-> "into_line_item_for_product",
                   product_id |-> product_id, result |-> r.tag]
    /\ prev' = Snapshot
    /\ UNCHANGED <<store, others>>

\* line_item.set_quantity(quantity)
SetQuantity(quantity) ==
    /\ mem.tag = "OrderLineItem"
    /\ \E r \in {set_quantity(mem, quantity)} :
       /\ mem' = r.line_item
       /\ last' = [op |-> "set_quantity", quantity |-> quantity,
                   result |-> r.result]
    /\ prev' = Snapshot
    /\ UNCHANGED <<store, others>>

\* The aggregate the caller holds goes out of scope.
Drop ==
    /\ mem # None
    /\ mem' = None
    /\ last' = [op |-> "drop"]
    /\ prev' = Snapshot
    /\ UNCHANGED <<store, others>>

\* store.set_order(NoTransaction.active().get(), order); the order is moved.
SetOrder ==
    /\ mem.tag = "Order"
    /\ \E r \in {set_order(store, mem)} :
       /\ VersionsWithin(r.store)
       /\ store' = r.store
       /\ last' = [op |-> "set_order", id |-> mem.order.id,
                   result |-> r.result]
    /\ mem' = None
    /\ prev' = Snapshot
    /\ UNCHANGED others

\* Whether an invocation reaches the branch that asks the identity provider
\* and the product query: the order is stored and has no line item for the
\* product.
Consults(s, command) ==
    add_or_update_product_command(s, command, 1, None).id_calls > 0

\* One invocation of the command with what its collaborators answered.
Invoke(command, next_id, found) ==
    \E r \in {add_or_update_product_command(store, command, next_id, found)} :
    LET asked == r.id_calls > 0 IN
    /\ VersionsWithin(r.store)
    /\ r.result.ok /\ asked => next_id \in LineItemIds
    /\ store' = r.store
    /\ last' = [op |-> "add_or_update_product", command |-> command,
                result |-> r.result, id_calls |-> r.id_calls,
                writes |-> r.writes,
                found |-> IF asked THEN found ELSE None,
                next_id |-> IF asked THEN Some(next_id) ELSE None]
    /\ prev' = Snapshot
    /\ UNCHANGED <<mem, others>>

\* The price the product store holds for a product: it is set when the
\* product is created and no command changes it.
catalog_price(product_id) == ((product_id - 1) % MaxPrice) + 1

\* get_product_query: the stored product of the id asked for, or none when
\* the product store has no such product.
get_product(product_id) ==
    {None, Some(ProductData(product_id, catalog_price(product_id)))}

\* cmd.add_or_update_product(AddOrUpdateProduct { id, product_id, quantity }),
\* run while the caller holds no aggregate of its own; the identity provider
\* is NextLineItemId.
AddOrUpdate(command) ==
    /\ mem = None
    /\ IF Consults(store, command)
       THEN \E next_id \in NextLineItemIds(mem, store),
               found \in get_product(command.product_id) :
                Invoke(command, next_id, found)
       ELSE Invoke(command, 1, None)

\* What the order calls record and hold: left alone by the other calls.
orders == <<mem, store, last, prev>>

\* format!("{}", id) followed by Id::try_from(&text), for any identifier.
\* The conversions are pure: each starts from nothing converted yet.
IdRoundTrip ==
    /\ parsed.op = "none"
    /\ \E id \in Ids :
           parsed' = [op |-> "round_trip", id |-> id, text |-> IdDisplay(id),
                      result |-> IdTryFrom(IdDisplay(id))]
    /\ UNCHANGED <<orders, product_store, callers, tasks>>

\* Id::try_from(text) for any text from outside.
IdParse ==
    /\ parsed.op = "none"
    /\ \E text \in Texts :
           parsed' = [op |-> "try_from", text |-> text,
                      result |-> IdTryFrom(text)]
    /\ UNCHANGED <<orders, product_store, callers, tasks>>

\* The text and the result go out of scope.
IdForget ==
    /\ parsed.op # "none"
    /\ parsed' = [op |-> "none"]
    /\ UNCHANGED <<orders, product_store, callers, tasks>>

\* cmd.set_product(SetProduct { id, title }) begins: its first step is
\* store.get(command.id).
SetProductCall(c, id, title) ==
    /\ callers[c].pc = "idle"
    /\ callers' = [callers EXCEPT ![c] =
                      [pc |-> "get", op |-> "set_product", id |-> id,
                       title |-> title]]
    /\ UNCHANGED <<orders, parsed, product_store, tasks>>

\* query.get_product(GetProduct { id }) begins: its one step is
\* store.get(query.id).
GetProductCall(c, id) ==
    /\ callers[c].pc = "idle"
    /\ callers' = [callers EXCEPT ![c] =
                      [pc |-> "get", op |-> "get_product", id |-> id]]
    /\ UNCHANGED <<orders, parsed, product_store, tasks>>

\* cmd.set_product_title(SetProductTitle { id, title }) begins: it obtains
\* the active transaction; its next step is store.get_product(command.id).
SetProductTitleCall(c, id, title) ==
    /\ callers[c].pc = "idle"
    /\ callers' = [callers EXCEPT ![c] =
                      [pc |-> "get", op |-> "set_product_title", id |-> id,
                       title |-> title, transaction |-> Some(active(c))]]
    /\ UNCHANGED <<orders, parsed, product_store, tasks>>

\* ProductStore::get, `self.read()`: the caller waits for the read lock.
ReadLock(c) ==
    /\ callers[c].pc = "get"
    /\ can_read(product_store)
    /\ product_store' = [product_store EXCEPT !.readers = @ \cup {c}]
    /\ callers' = [callers EXCEPT ![c].pc = "reading"]
    /\ UNCHANGED <<orders, parsed, tasks>>

\* ProductStore::get, `products.get(&id)` to the end: the entry is cloned
\* and the read lock released. The query answers with it; set_product goes
\* on to set the title, or to make the product when there is none;
\* set_product_title sets the title, or returns "not found".
Get(c) ==
    /\ callers[c].pc = "reading"
    /\ \E got \in {product_get(product_store, callers[c].id)} :
       callers' = [callers EXCEPT ![c] =
           IF callers[c].op = "get_product"
           THEN [pc |-> "done", op |-> "get_product", id |-> callers[c].id,
                 got |-> got,
                 result |-> IF got = None THEN Err("QueryError", "not found")
                            ELSE Ok(got)]
           ELSE IF callers[c].op = "set_product"
           THEN [pc |-> "set", op |-> "set_product", id |-> callers[c].id,
                 got |-> got,
                 seen |-> product_store.applied[callers[c].id],
                 product |-> IF got = None
                             THEN Product_new(callers[c].id,
                                              callers[c].title).value
                             ELSE IF got = Writing
                             THEN StoredProduct(callers[c].id, callers[c].title)
                             ELSE set_title(got, callers[c].title)]
           ELSE IF got = None
           THEN exit(callers[c], error_msg("not found"), <<>>)
           ELSE [pc |-> "set", op |-> "set_product_title",
                 id |-> callers[c].id, got |-> got,
                 transaction |-> callers[c].transaction,
                 product |-> IF got = Writing
                             THEN StoredProduct(callers[c].id, callers[c].title)
                             ELSE set_title(got, callers[c].title)]]
    /\ product_store' = [product_store EXCEPT !.readers = @ \ {c}]
    /\ UNCHANGED <<orders, parsed, tasks>>

\* ProductStore::set, `self.write()`: the caller waits for the write lock.
\* (A product is rewritten at most MaxVersion times.)
WriteLock(c) ==
    /\ callers[c].pc = "set"
    /\ can_write(product_store)
    /\ product_store.applied[callers[c].id] < MaxVersion
    /\ product_store' = [product_store EXCEPT !.writer = Some(c)]
    /\ callers' = [callers EXCEPT ![c].pc = "writing"]
    /\ UNCHANGED <<orders, parsed, tasks>>

\* ProductStore::set, `products.insert(id, data)` under way.
InsertBegin(c) ==
    /\ callers[c].pc = "writing"
    /\ product_store' = [product_store EXCEPT !.products[callers[c].id] = Writing]
    /\ callers' = [callers EXCEPT ![c].pc = "inserting"]
    /\ UNCHANGED <<orders, parsed, tasks>>

\* ProductStore::set, the insert done, whatever the entry was; the write
\* lock is released and Ok(()) returned, with which the command returns.
InsertEnd(c) ==
    /\ callers[c].pc = "inserting"
    /\ product_store' =
           [product_store EXCEPT !.products[callers[c].id] = callers[c].product,
                                 !.applied[callers[c].id] = @ + 1,
                                 !.writer = None]
    /\ callers' = [callers EXCEPT ![c] =
           IF callers[c].op = "set_product"
           THEN [pc |-> "done", op |-> "set_product",
                 id |-> callers[c].id, got |-> callers[c].got,
                 seen |-> callers[c].seen,
                 overwrote |-> product_store.applied[callers[c].id],
                 product |-> callers[c].product,
                 result |-> Ok("unit")]
           ELSE exit(callers[c], Ok("unit"),
                     <<Write("set_product", callers[c].transaction)>>)]
    /\ UNCHANGED <<orders, parsed, tasks>>

\* The caller has its result and is free for its next call.
Return(c) ==
    /\ callers[c].pc = "done"
    /\ callers' = [callers EXCEPT ![c] = Idle]
    /\ UNCHANGED <<orders, parsed, product_store, tasks>>

\* ------------------------------------- the command, a store call at a time
\* The line-item identifiers the running invocations hold.
HeldLineItemIds ==
    {tasks[c].id : c \in {c \in Callers : "id" \in DOMAIN tasks[c]}}

\* What the identity provider yields to a running invocation: fresh among
\* the stored identifiers and those other invocations hold.
NextTaskLineItemIds ==
    LET unused == UnusedLineItemIds(mem, store) \ HeldLineItemIds IN
    IF unused = {} THEN {BeyondLineItemIds}
    ELSE {id \in unused : \A other \in unused : id <= other}

\* A step of a running invocation is the last call there was.
Stepped ==
    /\ last' = [op |-> "step"]
    /\ prev' = Snapshot

\* cmd.add_or_update_product(command) begins: `transaction.active()`.
\* Commands execute synchronously, one at a time: an invocation begins when
\* none is running.
Begin(c, command) ==
    /\ \A other \in Callers : tasks[other].pc = "idle"
    /\ tasks' = [tasks EXCEPT ![c] =
                    [pc |-> "get_order", op |-> "add_or_update_product",
                     command |-> command, transaction |-> Some(active(c))]]
    /\ Stepped
    /\ UNCHANGED <<mem, store, parsed, product_store, callers>>

\* cmd.add_or_update_product(command) begins while other invocations are
\* running, all on one order: callers that share the store through the
\* Resolver, the invocations interleaving a store call at a time.
BeginRace(c, command) ==
    /\ tasks[c].pc = "idle"
    /\ \A other \in Callers :
           "command" \in DOMAIN tasks[other]
               => tasks[other].command.id = command.id
    /\ tasks' = [tasks EXCEPT ![c] =
                    [pc |-> "get_order", op |-> "add_or_update_product",
                     command |-> command, transaction |-> Some(active(c))]]
    /\ Stepped
    /\ UNCHANGED <<mem, store, parsed, product_store, callers>>

\* `store.get_order(command.id)?` and what follows it up to the next call
\* on a collaborator: no order, return "not found"; the product in the
\* order, set_quantity on its line item (and return its error); otherwise
\* go on with the order. `loaded` keeps what was read.
GetOrderStep(c) ==
    /\ tasks[c].pc = "get_order"
    /\ LET frame == tasks[c]
           command == frame.command
           got == get_order(store, command.id).value
       IN tasks' = [tasks EXCEPT ![c] =
            IF got = None
            THEN exit(frame, bad_input("not found"), <<>>)
            ELSE LET into == into_line_item_for_product(got.value,
                                                        command.product_id)
                 IN IF into.tag = "InOrder"
                    THEN LET sq == set_quantity(into.line_item,
                                                command.quantity)
                         IN IF ~sq.result.ok
                            THEN exit(frame, sq.result, <<>>)
                            ELSE [pc |-> "set_line_item", op |-> frame.op,
                                  transaction |-> frame.transaction,
                                  loaded |-> into.line_item,
                                  line_item |-> sq.line_item]
                    ELSE [pc |-> "id", op |-> frame.op, command |-> command,
                          transaction |-> frame.transaction,
                          order |-> into.order]]
    /\ Stepped
    /\ UNCHANGED <<mem, store, parsed, product_store, callers>>

\* `id_provider.id()?`
IdStep(c) ==
    /\ tasks[c].pc = "id"
    /\ \E next_id \in NextTaskLineItemIds :
           tasks' = [tasks EXCEPT ![c] =
                        [pc |-> "get_product", op |-> tasks[c].op,
                         command |-> tasks[c].command,
                         transaction |-> tasks[c].transaction,
                         order |-> tasks[c].order, id |-> next_id]]
    /\ Stepped
    /\ UNCHANGED <<mem, store, parsed, product_store, callers>>

\* `query.get_product(..)?.ok_or_else(..)?` and `order.add_product(..)?`:
\* no product, return "product not found"; add_product's error, return it;
\* otherwise go on with the order and its new line item.
GetProductStep(c) ==
    /\ tasks[c].pc = "get_product"
    /\ \E found \in get_product(tasks[c].command.product_id) :
       LET frame == tasks[c] IN
       IF found = None
       THEN tasks' = [tasks EXCEPT ![c] =
                         exit(frame, bad_input("product not found"), <<>>)]
       ELSE \E ap \in {add_product(frame.order, frame.id, found.value,
                                   frame.command.quantity)} :
            /\ ap.result.ok => frame.id \in LineItemIds
            /\ tasks' = [tasks EXCEPT ![c] =
                 IF ~ap.result.ok
                 THEN exit(frame, ap.result, <<>>)
                 ELSE [pc |-> "set_order", op |-> frame.op,
                       transaction |-> frame.transaction,
                       loaded |-> frame.order, order |-> ap.order,
                       id |-> frame.id]]
    /\ Stepped
    /\ UNCHANGED <<mem, store, parsed, product_store, callers>>

\* Variant of SetLineItemStep that, the write being rejected, starts over
\* from the load instead of returning the failure.
SetLineItemStepRetry(c) ==
    /\ tasks[c].pc = "set_line_item"
    /\ \E w \in {set_line_item(store, tasks[c].line_item)} :
       /\ VersionsWithin(w.store)
       /\ store' = w.store
       /\ tasks' = [tasks EXCEPT ![c] =
              IF w.result.ok
              THEN exit(tasks[c], Ok(tasks[c].line_item.line_item.id),
                        <<Write("set_line_item", tasks[c].transaction)>>)
              ELSE [pc |-> "get_order", op |-> tasks[c].op,
                    command |->
                        AddOrUpdateProduct(
                            tasks[c].line_item.order.id,
                            tasks[c].line_item.line_item.product_id,
                            tasks[c].line_item.line_item.quantity),
                    transaction |-> tasks[c].transaction]]
    /\ Stepped
    /\ UNCHANGED <<mem, parsed, product_store, callers>>

\* `store.set_line_item(transaction.get(), line_item)?` and the return of
\* the line item's id.
SetLineItemStep(c) ==
    /\ tasks[c].pc = "set_line_item"
    /\ \E w \in {set_line_item(store, tasks[c].line_item)} :
       /\ VersionsWithin(w.store)
       /\ store' = w.store
       /\ tasks' = [tasks EXCEPT ![c] =
              exit(tasks[c],
                   IF w.result.ok THEN Ok(tasks[c].line_item.line_item.id)
                   ELSE w.result,
                   <<Write("set_line_item", tasks[c].transaction)>>)]
    /\ Stepped
    /\ UNCHANGED <<mem, parsed, product_store, callers>>

\* Variant of SetOrderStep that, the write being rejected, writes its order
\* again under the version the store now has.
SetOrderStepForce(c) ==
    /\ tasks[c].pc = "set_order"
    /\ \E w \in {set_order(store, tasks[c].order)} :
       \E again \in {IF w.result.ok THEN w
                     ELSE set_order(store,
                              MkOrder([tasks[c].order.order EXCEPT !.version =
                                          store[tasks[c].order.order.id]
                                              .order.version],
                                      tasks[c].order.line_items))} :
       /\ store' = again.store
       /\ tasks' = [tasks EXCEPT ![c] =
              exit(tasks[c],
                   IF again.result.ok THEN Ok(tasks[c].id) ELSE again.result,
                   <<Write("set_order", tasks[c].transaction)>>)]
    /\ Stepped
    /\ UNCHANGED <<mem, parsed, product_store, callers>>

\* `store.set_order(transaction.get(), order)?` and the return of the new
\* line item's id.
SetOrderStep(c) ==
    /\ tasks[c].pc = "set_order"
    /\ \E w \in {set_order(store, tasks[c].order)} :
       /\ store' = w.store
       /\ tasks' = [tasks EXCEPT ![c] =
              exit(tasks[c],
                   IF w.result.ok THEN Ok(tasks[c].id) ELSE w.result,
                   <<Write("set_order", tasks[c].transaction)>>)]
    /\ Stepped
    /\ UNCHANGED <<mem, parsed, product_store, callers>>

\* The caller has its result and is free for its next call.
Finish(c) ==
    /\ tasks[c].pc = "done"
    /\ tasks' = [tasks EXCEPT ![c] = Idle]
    /\ Stepped
    /\ UNCHANGED <<mem, store, parsed, product_store, callers>>

\* The aggregate on its own, as the unit tests of the model drive it.
Next ==
    \/ \E id \in OrderIds : OrderNew(id)
    \/ \E id \in NextLineItemIds(mem, store), product \in Products,
          quantity \in Quantities :
           AddProduct(id, product, quantity)
    \/ \E product_id \in ProductIds : IntoLineItemForProduct(product_id)
    \/ \E quantity \in Quantities : SetQuantity(quantity)
    \/ Drop

Spec == Init /\ [][Next]_vars

\* The command against a store seeded with new orders, as its tests drive it.
NextCmd ==
    \/ \E id \in OrderIds : OrderNew(id)
    \/ SetOrder
    \/ \E id \in OrderIds, product_id \in ProductIds, quantity \in Quantities :
           AddOrUpdate(AddOrUpdateProduct(id, product_id, quantity))

SpecCmd == Init /\ [][NextCmd]_vars

\* Both together: orders built in memory, persisted, then changed by commands.
NextAll ==
    \/ \E id \in OrderIds : OrderNew(id)
    \/ \E id \in NextLineItemIds(mem, store), product \in Products,
          quantity \in Quantities :
           AddProduct(id, product, quantity)
    \/ \E product_id \in ProductIds : IntoLineItemForProduct(product_id)
    \/ \E quantity \in Quantities : SetQuantity(quantity)
    \/ Drop
    \/ SetOrder
    \/ \E id \in OrderIds, product_id \in ProductIds, quantity \in Quantities :
           AddOrUpdate(AddOrUpdateProduct(id, product_id, quantity))

SpecAll == Init /\ [][NextAll]_vars

\* Identifiers written out and read back.
NextId ==
    \/ IdRoundTrip
    \/ IdParse
    \/ IdForget

SpecId == Init /\ [][NextId]_vars

\* The product store shared (through the Resolver's Arc) by callers that run
\* the set-product command and the get-product query, a store call at a time.
NextProducts ==
    \/ \E c \in Callers, id \in ProductIds, title \in Titles :
           SetProductCall(c, id, title)
    \/ \E c \in Callers, id \in ProductIds : GetProductCall(c, id)
    \/ \E c \in Callers, id \in ProductIds, title \in Titles :
           SetProductTitleCall(c, id, title)
    \/ \E c \in Callers : ReadLock(c)
    \/ \E c \in Callers : Get(c)
    \/ \E c \in Callers : WriteLock(c)
    \/ \E c \in Callers : InsertBegin(c)
    \/ \E c \in Callers : InsertEnd(c)
    \/ \E c \in Callers : Return(c)

SpecProducts == Init /\ [][NextProducts]_vars

\* The add-or-update command run by its callers a store call at a time, one
\* invocation after the other, over orders seeded as the command's tests
\* seed them.
NextTasks ==
    \/ \E id \in OrderIds : OrderNew(id)
    \/ SetOrder
    \/ \E c \in Callers, id \in OrderIds, product_id \in ProductIds,
          quantity \in Quantities :
           Begin(c, AddOrUpdateProduct(id, product_id, quantity))
    \/ \E c \in Callers : GetOrderStep(c)
    \/ \E c \in Callers : IdStep(c)
    \/ \E c \in Callers : GetProductStep(c)
    \/ \E c \in Callers : SetLineItemStep(c)
    \/ \E c \in Callers : SetOrderStep(c)
    \/ \E c \in Callers : Finish(c)

SpecTasks == Init /\ [][NextTasks]_vars

\* Concurrent invocations of the add-or-update command on one stored order:
\* the orders of the store are separate entries, so the race is explored
\* with a single order seeded.
NextRace ==
    \/ store = in_memory_store /\ \E id \in OrderIds : OrderNew(id)
    \/ SetOrder
    \/ \E c \in Callers, id \in OrderIds, product_id \in ProductIds,
          quantity \in Quantities :
           BeginRace(c, AddOrUpdateProduct(id, product_id, quantity))
    \/ \E c \in Callers : GetOrderStep(c)
    \/ \E c \in Callers : IdStep(c)
    \/ \E c \in Callers : GetProductStep(c)
    \/ \E c \in Callers : SetLineItemStep(c)
    \/ \E c \in Callers : SetOrderStep(c)
    \/ \E c \in Callers : Finish(c)

SpecRace == Init /\ [][NextRace]_vars

\* Nothing has been done to the product store, or to the order store.
ProductsQuiet ==
    /\ product_store = product_in_memory_store
    /\ \A c \in Callers : callers[c] = Idle

OrdersQuiet ==
    /\ store = in_memory_store
    /\ mem = None
    /\ last.op = "none"
    /\ \A c \in Callers : tasks[c] = Idle

\* The two commands that work under a transaction, add-or-update on the
\* order store and set-product-title on the product store. Neither touches
\* the other's store (the product query of add-or-update is answered from
\* outside here), so a run of the one adds nothing to a run of the other:
\* they are explored one store at a time.
NextTx ==
    \/ ProductsQuiet /\ NextTasks
    \/ OrdersQuiet /\ NextProducts

SpecTx == Init /\ [][NextTx]_vars

\* ------------------------------------------------------------ properties
\* Every line item there is: the caller's and the stored ones.
AllLineItems ==
    MemLineItems(mem) \cup UNION {StoredLineItems(store, id) : id \in OrderIds}

\* The last call was order.add_product(..).
IsAddProduct == last.op = "add_product"

\* The last call was line_item.set_quantity(..).
IsSetQuantity == last.op = "set_quantity"

\* The last call was the add-or-update command.
IsCommand == last.op = "add_or_update_product"

\* The command's order, as stored before the command ran.
OrderBefore == prev.store[last.command.id]

\* The command found its order and the order had a line item for its product.
WasInOrder ==
    /\ IsCommand
    /\ OrderBefore # None
    /\ contains_product(OrderBefore, last.command.product_id)

\* The command found its order and the order had no line item for its product.
WasNotInOrder ==
    /\ IsCommand
    /\ OrderBefore # None
    /\ ~contains_product(OrderBefore, last.command.product_id)

\* C1: no two line items of an order reference the same product, whatever
\* add_product and set_quantity calls were made on it, failed ones included.
C1_NoDuplicateProduct ==
    mem.tag = "Order" =>
        \A i, j \in DOMAIN mem.line_items :
            mem.line_items[i].product_id = mem.line_items[j].product_id
                => i = j

C1_Witness ==
    /\ IsAddProduct
    /\ ~last.result.ok
    /\ last.result.msg = "product is already in order"
    /\ Len(mem.line_items) = 2

\* C2: every line item, held in memory or stored, has a quantity of at
\* least 1.
C2_QuantityAtLeastOne ==
    \A li \in AllLineItems : li.quantity >= 1

C2_Witness ==
    /\ IsSetQuantity
    /\ last.quantity = 0
    /\ mem.tag = "OrderLineItem"
    /\ \E id \in OrderIds : StoredLineItems(store, id) # {}

\* C3: add_product of a product the order does not hold, with a quantity of
\* at least 1, succeeds; the order then contains the product and has its
\* old line items followed by one new one, with that product, that quantity
\* and the product's price at the call.
C3_AddProductAppends ==
    (/\ IsAddProduct
     /\ ~contains_product(prev.mem, last.product_id)
     /\ last.quantity >= 1)
    => /\ last.result.ok
       /\ contains_product(mem, last.product_id)
       /\ Len(mem.line_items) = Len(prev.mem.line_items) + 1
       /\ SubSeq(mem.line_items, 1, Len(prev.mem.line_items))
              = prev.mem.line_items
       /\ LET new == mem.line_items[Len(mem.line_items)] IN
          /\ new.product_id = last.product_id
          /\ new.quantity = last.quantity
          /\ Some(new.price) = last.price

C3_Witness ==
    /\ IsAddProduct
    /\ last.result.ok
    /\ last.quantity = 2
    /\ last.price = Some(2)
    /\ Len(mem.line_items) = 2

\* C4: add_product of a product the order already holds fails with
\* "product is already in order" for every quantity, and leaves the order
\* and all its line items as they were.
C4_DuplicateRejected ==
    (IsAddProduct /\ contains_product(prev.mem, last.product_id))
    => /\ ~last.result.ok
       /\ last.result.kind = "OrderError"
       /\ last.result.msg = "product is already in order"
       /\ mem = prev.mem

C4_Witness ==
    /\ IsAddProduct
    /\ contains_product(prev.mem, last.product_id)
    /\ last.quantity = 0
    /\ Len(prev.mem.line_items) = 2

\* C5: with a quantity below 1, add_product and set_quantity fail with the
\* aggregate's error and change nothing: the order keeps its line items,
\* the line item keeps its quantity. The error is the quantity's, unless
\* add_product finds the product already in the order first.
C5_ZeroQuantityRejected ==
    /\ (IsAddProduct /\ last.quantity < 1)
       => /\ ~last.result.ok
          /\ last.result.kind = "OrderError"
          /\ ~contains_product(prev.mem, last.product_id)
                => last.result.msg = "quantity must be greater than 0"
          /\ mem = prev.mem
    /\ (IsSetQuantity /\ last.quantity < 1)
       => /\ ~last.result.ok
          /\ last.result.kind = "OrderError"
          /\ last.result.msg = "quantity must be greater than 0"
          /\ mem = prev.mem

C5_Witness ==
    /\ IsSetQuantity
    /\ last.quantity = 0
    /\ mem.line_item.quantity = 2

\* C6: the command on a stored order without the product, the product
\* being found and the quantity at least 1, returns the identifier the
\* identity provider gave it, and the store's get_line_item for that
\* identifier yields a line item with the product and the quantity.
C6_CommandAdds ==
    (WasNotInOrder /\ last.found # None /\ last.command.quantity >= 1)
    => /\ last.result.ok
       /\ last.next_id = Some(last.result.value)
       /\ LET got == get_line_item(store, last.command.id,
                                   last.result.value).value
          IN /\ got # None
             /\ got.value.line_item.product_id = last.command.product_id
             /\ got.value.line_item.quantity = last.command.quantity

C6_Witness ==
    /\ WasNotInOrder
    /\ last.result.ok
    /\ last.command.quantity = 2
    /\ Len(store[last.command.id].line_items) = 2

\* C7: the command on a stored order that has the product in line item L,
\* with a quantity of at least 1, returns L without asking for a new
\* identifier, get_line_item for L then yields the quantity, and the order
\* has as many line items as before; every time it is repeated.
C7_CommandUpdates ==
    (WasInOrder /\ last.command.quantity >= 1)
    => LET L == find_line_item(OrderBefore.line_items,
                               last.command.product_id).id
           got == get_line_item(store, last.command.id, L).value
       IN /\ last.result.ok
          /\ last.result.value = L
          /\ last.id_calls = 0
          /\ got # None
          /\ got.value.line_item.quantity = last.command.quantity
          /\ Len(store[last.command.id].line_items)
                 = Len(OrderBefore.line_items)

C7_Witness ==
    /\ WasInOrder
    /\ last.result.ok
    /\ contains_product(OrderBefore, last.command.product_id)
    /\ \E li \in StoredLineItems(store, last.command.id) :
          /\ li.id = last.result.value
          /\ li.version = 2
          /\ li.quantity = 1

C10_ErrorLeavesStore ==
    (IsCommand /\ ~last.result.ok) => store = prev.store

C10_Witness ==
    /\ WasInOrder
    /\ ~last.result.ok
    /\ last.command.quantity = 0
    /\ Len(OrderBefore.line_items) = 2

\* C11: of two writers of one stored entity that read it at the same
\* version, the one that writes second is rejected with a concurrency
\* conflict: a write goes through only when the entity is, as it is written,
\* at the version the writer read.
C11_StaleWriteRejected ==
    \A c \in Callers :
        (callers[c].pc = "done" /\ callers[c].op = "set_product")
        => /\ callers[c].result.ok => callers[c].seen = callers[c].overwrote
           /\ callers[c].seen # callers[c].overwrote
                  => /\ ~callers[c].result.ok
                     /\ callers[c].result.kind = "ConcurrencyConflict"

\* C14: a read of the product store never returns an entry a write is at
\* work on: what get hands out is none or a whole product; and while a
\* writer holds the lock no reader does.
C14_NoReadOfWriteInProgress ==
    /\ \A c \in Callers :
           "got" \in DOMAIN callers[c]
           => \/ callers[c].got = None
              \/ \E t \in Titles :
                     callers[c].got = StoredProduct(callers[c].id, t)
    /\ product_store.writer # None => product_store.readers = {}

C14_Witness ==
    \E r, w \in Callers :
        /\ callers[w].pc = "inserting"
        /\ callers[r].pc = "get"
        /\ callers[r].op = "get_product"
        /\ callers[r].id = callers[w].id
        /\ callers[w].got # None

\* C12: set_quantity and add_product change no version. The line item an
\* invocation holds after set_quantity, and its order's data, have the
\* versions they were loaded with; the order it holds after add_product has
\* the version it was loaded with, its old line items have theirs, and the
\* new line item has the default version.
C12_MemoryKeepsVersions ==
    \A c \in Callers :
        /\ tasks[c].pc = "set_line_item"
           => /\ tasks[c].line_item.line_item.version
                     = tasks[c].loaded.line_item.version
              /\ tasks[c].line_item.order.version
                     = tasks[c].loaded.order.version
        /\ tasks[c].pc = "set_order"
           => LET before == tasks[c].loaded
                  after == tasks[c].order
              IN /\ after.order.version = before.order.version
                 /\ Len(after.line_items) = Len(before.line_items) + 1
                 /\ \A i \in DOMAIN before.line_items :
                        after.line_items[i].version
                            = before.line_items[i].version
                 /\ after.line_items[Len(after.line_items)].version
                        = DefaultVersion

C12_Witness ==
    \E c \in Callers :
        /\ tasks[c].pc = "set_line_item"
        /\ tasks[c].loaded.line_item.version = 2
        /\ tasks[c].loaded.order.version = 2
        /\ tasks[c].line_item.line_item.quantity
               # tasks[c].loaded.line_item.quantity

\* The calls of a caller: on the order command and on the product store.
Frames(c) == {tasks[c], callers[c]}

\* The commands that obtain the active transaction when they begin.
Transacted == {"add_or_update_product", "set_product_title"}

StoredVersions(s) ==
    [id \in OrderIds |->
        IF s[id] = None THEN None
        ELSE [order |-> s[id].order.version,
              line_items |-> {<<li.id, li.version>> :
                                 li \in StoredLineItems(s, id)}]]

\* The stored line item with an identifier.
StoredLineItem(s, id, line_item_id) ==
    CHOOSE li \in StoredLineItems(s, id) : li.id = line_item_id

\* C13: a new order has the default version, and so has the line item a
\* command adds; a successful command leaves the entity it wrote (the line
\* item on the update arm, the order on the add arm) with the version that
\* follows the one it had; a failed command leaves every stored version as
\* it was.
C13_VersionAdvances ==
    /\ last.op = "new" => mem.order.version = DefaultVersion
    /\ (WasInOrder /\ last.result.ok)
       => LET L == last.result.value IN
          /\ StoredLineItem(store, last.command.id, L).version
                 = NextVersion(StoredLineItem(prev.store, last.command.id,
                                              L).version)
          /\ StoredLineItem(store, last.command.id, L).version
                 # StoredLineItem(prev.store, last.command.id, L).version
    /\ (WasNotInOrder /\ last.result.ok)
       => /\ store[last.command.id].order.version
                 = NextVersion(OrderBefore.order.version)
          /\ store[last.command.id].order.version
                 # OrderBefore.order.version
          /\ StoredLineItem(store, last.command.id,
                            last.result.value).version = DefaultVersion
    /\ (IsCommand /\ ~last.result.ok)
       => StoredVersions(store) = StoredVersions(prev.store)

C13_Witness ==
    /\ WasNotInOrder
    /\ last.result.ok
    /\ OrderBefore.order.version = 2
    /\ \E li \in StoredLineItems(store, last.command.id) : li.version = 1

\* C16: a product an order contains, held in memory or stored, is still
\* contained after every call, failed ones included: add_product keeps the
\* products of the order, set_quantity keeps the product of the line item,
\* and no call on the store takes a product out of a stored order.
C16_NeverAbsentAgain ==
    /\ IsAddProduct
       => \A P \in ProductIds :
              contains_product(prev.mem, P) => contains_product(mem, P)
    /\ IsSetQuantity
       => mem.line_item.product_id = prev.mem.line_item.product_id
    /\ \A id \in OrderIds, P \in ProductIds :
           (prev.store[id] # None /\ contains_product(prev.store[id], P))
           => (store[id] # None /\ contains_product(store[id], P))

C16_Witness ==
    /\ IsAddProduct
    /\ ~last.result.ok
    /\ contains_product(prev.mem, last.product_id)
    /\ contains_product(mem, last.product_id)
    /\ \E id \in OrderIds :
          \E li \in StoredLineItems(store, id) : li.version = 1

\* C17: into_line_item_for_product on an order that contains the product
\* yields InOrder with the order's data and the one line item of that
\* product, both as they were; on an order that does not, NotInOrder with
\* the order and all its line items as they were.
C17_Classification ==
    last.op = "into_line_item_for_product"
    => IF contains_product(prev.mem, last.product_id)
       THEN /\ last.result = "InOrder"
            /\ mem.tag = "OrderLineItem"
            /\ mem.order = prev.mem.order
            /\ mem.line_item.product_id = last.product_id
            /\ \A i \in DOMAIN prev.mem.line_items :
                   prev.mem.line_items[i].product_id = last.product_id
                       => prev.mem.line_items[i] = mem.line_item
       ELSE /\ last.result = "NotInOrder"
            /\ mem = prev.mem

C17_Witness ==
    /\ last.op = "into_line_item_for_product"
    /\ last.result = "InOrder"
    /\ Len(prev.mem.line_items) = 2
    /\ mem.line_item = prev.mem.line_items[2]

\* C19, as claimed: when the command's product lookup finds nothing, the
\* identity provider has not been asked in that invocation.
C19_AsClaimed ==
    (WasNotInOrder /\ last.found = None) => last.id_calls = 0

\* C19, amended: the identity provider is asked before the product is
\* looked up, so when the lookup finds nothing it has been asked once; the
\* identifier is dropped: no stored line item carries it.
C19_IdBeforeLookup ==
    (WasNotInOrder /\ last.found = None)
    => /\ last.id_calls = 1
       /\ last.next_id # None
       /\ ~last.result.ok
       /\ \A id \in OrderIds :
              \A li \in StoredLineItems(store, id) :
                  Some(li.id) # last.next_id

C19_Witness ==
    /\ WasNotInOrder
    /\ last.found = None
    /\ last.next_id = Some(2)
    /\ last.command.quantity = 0

\* C20: set_quantity leaves the line item's identifier, product and price
\* and the order's data as they were; after a successful command on the
\* update arm the order's data, its other line items, the identifier,
\* product and price of the updated one, and every other order are stored
\* as before.
C20_OnlyQuantityChanges ==
    /\ IsSetQuantity
       => /\ mem.line_item.id = prev.mem.line_item.id
          /\ mem.line_item.product_id = prev.mem.line_item.product_id
          /\ mem.line_item.price = prev.mem.line_item.price
          /\ mem.order = prev.mem.order
    /\ (WasInOrder /\ last.result.ok)
       => LET L == last.result.value
              after == store[last.command.id]
          IN /\ after.order = OrderBefore.order
             /\ Len(after.line_items) = Len(OrderBefore.line_items)
             /\ \A i \in DOMAIN OrderBefore.line_items :
                    IF OrderBefore.line_items[i].id = L
                    THEN /\ after.line_items[i].id = L
                         /\ after.line_items[i].product_id
                                = OrderBefore.line_items[i].product_id
                         /\ after.line_items[i].price
                                = OrderBefore.line_items[i].price
                    ELSE after.line_items[i] = OrderBefore.line_items[i]
             /\ \A id \in OrderIds \ {last.command.id} :
                    store[id] = prev.store[id]

C20_Witness ==
    /\ WasInOrder
    /\ last.result.ok
    /\ Len(OrderBefore.line_items) = 2
    /\ OrderBefore.line_items[1].id = last.result.value
    /\ OrderBefore.line_items[1].quantity # last.command.quantity
    /\ \E id \in OrderIds \ {last.command.id} : store[id] # None

\* C21: an invocation of the command makes at most one store write and
\* never starts over. It goes to set_line_item exactly when the order it
\* loaded has the product and to set_order exactly when it has not; every
\* step before the write leaves the store alone; the write step ends the
\* invocation, with Ok or with the write's failure, a rejected write
\* leaving the store alone; and an invocation that returned Ok made exactly
\* one write.
C21_OneWriteNoRetry ==
    [][\A c \in Callers :
         LET f == tasks[c]
             g == tasks'[c]
         IN /\ (f.pc = "get_order" /\ g.pc = "set_line_item")
               => /\ store[f.command.id] # None
                  /\ contains_product(store[f.command.id],
                                      f.command.product_id)
            /\ (f.pc = "get_order" /\ g.pc = "id")
               => /\ store[f.command.id] # None
                  /\ ~contains_product(store[f.command.id],
                                       f.command.product_id)
            /\ (f.pc \in {"get_order", "id", "get_product"} /\ g # f)
               => /\ store' = store
                  /\ g.pc \in {"set_line_item", "id", "get_product",
                               "set_order", "done"}
                  /\ g.pc = "done" => (g.writes = <<>> /\ ~g.result.ok)
            /\ (f.pc = "set_line_item" /\ g # f)
               => /\ g.pc = "done"
                  /\ g.writes = <<Write("set_line_item", f.transaction)>>
                  /\ ~g.result.ok => store' = store
            /\ (f.pc = "set_order" /\ g # f)
               => /\ g.pc = "done"
                  /\ g.writes = <<Write("set_order", f.transaction)>>
                  /\ ~g.result.ok => store' = store
            /\ g.pc = "done"
               => /\ Len(g.writes) <= 1
                  /\ g.result.ok => Len(g.writes) = 1
      ]_vars

C21_Witness ==
    \E c \in Callers :
        /\ tasks[c].pc = "done"
        /\ ~tasks[c].result.ok
        /\ tasks[c].result.kind = "ConcurrencyConflict"
        /\ tasks[c].writes = <<Write("set_line_item", Some(active(c)))>>

\* The identifiers of the line items of the stored order id.
StoredLineItemIds(s, id) == {li.id : li \in StoredLineItems(s, id)}

\* C22: however concurrent invocations on one order interleave, a stored
\* order never has two line items for one product, a line item whose
\* identifier an invocation returned is in the stored order, and no stored
\* line item ever goes away again.
C22_RaceKeepsOrder ==
    [][/\ \A id \in OrderIds :
              store'[id] # None
              => \A i, j \in DOMAIN store'[id].line_items :
                     store'[id].line_items[i].product_id
                         = store'[id].line_items[j].product_id
                     => i = j
       /\ \A c \in Callers :
              (tasks'[c].pc = "done" /\ tasks'[c].result.ok)
              => \E id \in OrderIds :
                     tasks'[c].result.value \in StoredLineItemIds(store', id)
       /\ \A id \in OrderIds :
              StoredLineItemIds(store, id) \subseteq StoredLineItemIds(store', id)
      ]_vars

C22_Witness ==
    \E a, b \in Callers :
        /\ a # b
        /\ tasks[a].pc = "done"
        /\ tasks[a].result.ok
        /\ tasks[a].writes = <<Write("set_order", Some(active(a)))>>
        /\ tasks[b].pc = "done"
        /\ ~tasks[b].result.ok
        /\ tasks[b].result.kind = "ConcurrencyConflict"
        /\ tasks[b].writes = <<Write("set_order", Some(active(b)))>>

\* A text is a well-formed identifier when it is some identifier written
\* out, hyphenated or not, each letter in either case.
WellFormed(text) ==
    \E id \in Ids, hyphenated \in BOOLEAN :
        LET shown == IF hyphenated THEN IdDisplay(id)
                     ELSE [i \in 1..MaxDigits |-> LowerHex(id[i])]
        IN /\ Len(text) = Len(shown)
           /\ \A i \in 1..Len(shown) :
                  \/ text[i] = shown[i]
                  \/ shown[i] = "a" /\ text[i] = "A"

\* C18: an identifier written out and parsed back is the identifier it was;
\* parsing a text that is not a well-formed identifier fails with the
\* parser's error and yields no identifier.
C18_RoundTrip ==
    /\ parsed.op = "round_trip" => parsed.result = Ok(parsed.id)
    /\ (parsed.op = "try_from" /\ ~WellFormed(parsed.text))
       => /\ ~parsed.result.ok
          /\ parsed.result.kind = "IdError"

C18_Witness ==
    /\ parsed.op = "try_from"
    /\ ~WellFormed(parsed.text)
    /\ Len(parsed.text) = HyphenatedLen + 1
    /\ \A i \in 1..SimpleLen : HexValue(parsed.text[i]) # None

====
